---- MODULE Spec2Model ----
(***************************************************************************)
(* A model of pycassa's ColumnFamily (src/pycassa/columnfamily.py): the    *)
(* type-directed marshaling of names, the slice predicate every read       *)
(* builds, the multiget result assembly, the paging get_range generator    *)
(* and batch_insert.                                                       *)
(***************************************************************************)
EXTENDS Integers, Sequences, FiniteSets, TLC

(***************************************************************************)
(* Bounds of the model.                                                    *)
(***************************************************************************)
MaxKey == 5
MaxBuf == 3
MaxRowCount == 4
MaxKeysLen == 3
MaxRows == 3
MaxClock == 2

\* Row keys are ordered byte strings; the model uses 1..MaxKey in their order
\* and EmptyKey for the empty string, which sorts before every key.
Keys == 1..MaxKey
EmptyKey == 0

(***************************************************************************)
(* Python values.  Every value is a record of the same shape so that any   *)
(* two can be compared: kind is the Python type, n the integer of an int,  *)
(* b the bytes of a str (Python 2) or of a UUID or the code points of a    *)
(* unicode, exc the exception class of a raised error.                     *)
(***************************************************************************)
Val(kind, n, b) == [kind |-> kind, n |-> n, b |-> b, exc |-> ""]
None == Val("none", 0, <<>>)
PyInt(n) == Val("int", n, <<>>)
PyStr(b) == Val("str", 0, b)
PyUuid(b) == Val("uuid", 0, b)
PyUnicode(cp) == Val("unicode", 0, cp)
Raise(e) == [kind |-> "raise", n |-> 0, b |-> <<>>, exc |-> e]
Raised(v) == v.kind = "raise"
EmptyStr == PyStr(<<>>)

_TYPES == {"BytesType", "LongType", "IntegerType", "UTF8Type", "AsciiType",
           "LexicalUUIDType", "TimeUUIDType"}

_NON_SLICE == 0
_SLICE_START == 1
_SLICE_FINISH == 2

MAX_COUNT == 2147483647

(***************************************************************************)
(* struct.pack / struct.unpack of big-endian signed integers.  The bytes   *)
(* are computed by repeated floor division so that no intermediate value   *)
(* leaves the range of the model checker's integers.                       *)
(***************************************************************************)
RECURSIVE Shift(_, _)
Shift(n, k) == IF k = 0 THEN n ELSE Shift(n \div 256, k - 1)

IntBytes(n, w) == [p \in 1..w |-> Shift(n, w - p) % 256]

\* Whether n fits a signed integer of w bytes (struct.error otherwise).
FitsSigned(n, w) == Shift(n, w - 1) \in -128..127

RECURSIVE Horner(_, _)
Horner(b, acc) == IF b = <<>> THEN acc ELSE Horner(Tail(b), acc * 256 + Head(b))

BytesInt(b) ==
    IF Head(b) >= 128
    THEN -Horner([p \in 1..Len(b) |-> 255 - b[p]], 0) - 1
    ELSE Horner(b, 0)

\* long(value) / int(value) of a str: a string of decimal digits parses.
IsDigits(b) == b # <<>> /\ \A p \in 1..Len(b) : b[p] \in 48..57
RECURSIVE ParseDigits(_, _)
ParseDigits(b, acc) ==
    IF b = <<>> THEN acc ELSE ParseDigits(Tail(b), acc * 10 + (Head(b) - 48))

\* struct.pack('>q', long(value)) and struct.pack('>i', int(value)).
PackInteger(value, w) ==
    CASE value.kind = "int" ->
            IF FitsSigned(value.n, w) THEN PyStr(IntBytes(value.n, w))
            ELSE Raise("struct.error")
      [] value.kind \in {"str", "unicode"} ->
            IF IsDigits(value.b)
            THEN (IF FitsSigned(ParseDigits(value.b, 0), w)
                  THEN PyStr(IntBytes(ParseDigits(value.b, 0), w))
                  ELSE Raise("struct.error"))
            ELSE Raise("ValueError")
      [] value.kind = "uuid" -> Raise("struct.error")
      [] OTHER -> Raise("TypeError")

\* unicode.encode('utf-8') and str.decode('utf-8'), for code points below
\* 2048 (one or two bytes each).
RECURSIVE Utf8Encode(_)
Utf8Encode(cp) ==
    IF cp = <<>> THEN <<>>
    ELSE (IF Head(cp) < 128 THEN <<Head(cp)>>
          ELSE <<192 + (Head(cp) \div 64), 128 + (Head(cp) % 64)>>)
         \o Utf8Encode(Tail(cp))

RECURSIVE Utf8Valid(_)
Utf8Valid(b) ==
    IF b = <<>> THEN TRUE
    ELSE IF Head(b) < 128 THEN Utf8Valid(Tail(b))
    ELSE /\ Head(b) \in 194..223 /\ Len(b) >= 2 /\ b[2] \in 128..191
         /\ Utf8Valid(Tail(Tail(b)))

RECURSIVE Utf8Decode(_)
Utf8Decode(b) ==
    IF b = <<>> THEN <<>>
    ELSE IF Head(b) < 128 THEN <<Head(b)>> \o Utf8Decode(Tail(b))
    ELSE <<(Head(b) - 192) * 64 + (b[2] - 128)>> \o Utf8Decode(Tail(Tail(b)))

_pack(value, data_type) ==
    CASE data_type = "LongType" -> PackInteger(value, 8)
      [] data_type = "IntegerType" -> PackInteger(value, 4)
      [] data_type = "AsciiType" ->
            IF value.kind = "str" THEN PyStr(value.b)
            ELSE IF value.kind = "unicode" THEN Raise("struct.error")
            ELSE Raise("TypeError")
      [] data_type = "UTF8Type" ->
            \* a str that is not ASCII raises UnicodeDecodeError in encode and
            \* is taken as already encoded
            IF value.kind = "str" THEN PyStr(value.b)
            ELSE IF value.kind = "unicode" THEN PyStr(Utf8Encode(value.b))
            ELSE Raise("AttributeError")
      [] data_type \in {"TimeUUIDType", "LexicalUUIDType"} ->
            IF value.kind = "uuid" THEN PyStr(value.b) ELSE Raise("TypeError")
      [] OTHER -> value

UnpackInteger(b, w) ==
    IF b.kind = "str" /\ Len(b.b) = w THEN PyInt(BytesInt(b.b))
    ELSE Raise("struct.error")

_unpack(b, data_type) ==
    CASE data_type = "LongType" -> UnpackInteger(b, 8)
      [] data_type = "IntegerType" -> UnpackInteger(b, 4)
      [] data_type = "AsciiType" ->
            IF b.kind = "str" THEN PyStr(b.b) ELSE Raise("TypeError")
      [] data_type = "UTF8Type" ->
            IF b.kind # "str" THEN Raise("TypeError")
            ELSE IF Utf8Valid(b.b) THEN PyUnicode(Utf8Decode(b.b))
            ELSE Raise("UnicodeDecodeError")
      [] data_type \in {"TimeUUIDType", "LexicalUUIDType"} ->
            IF b.kind = "str" /\ Len(b.b) = 16 THEN PyUuid(b.b)
            ELSE Raise("struct.error")
      [] OTHER -> b

(***************************************************************************)
(* Optional lists and the Thrift structures of a slice request.  A field   *)
(* that is None in Python carries isNone = TRUE.                           *)
(***************************************************************************)
NoNames == [isNone |-> TRUE, names |-> <<>>]
Names(s) == [isNone |-> FALSE, names |-> s]

NoRange ==
    [isNone |-> TRUE, start |-> None, finish |-> None,
     reversed |-> FALSE, count |-> 0]
SliceRange(start, finish, reversed, count) ==
    [isNone |-> FALSE, start |-> start, finish |-> finish,
     reversed |-> reversed, count |-> count]

SlicePredicate(column_names, slice_range) ==
    [column_names |-> column_names, slice_range |-> slice_range]
ColumnParent(column_family, super_column) ==
    [column_family |-> column_family, super_column |-> super_column]

NoCp == ColumnParent("", None)
NoSp == SlicePredicate(NoNames, NoRange)

\* A predicate that carries the range next to the name list.
create_SlicePredicate_both(columns, column_start, column_finish, column_reversed, column_count) ==
    SlicePredicate(columns,
        SliceRange(column_start, column_finish, column_reversed, column_count))

create_SlicePredicate(columns, column_start, column_finish, column_reversed, column_count) ==
    IF ~columns.isNone
    THEN SlicePredicate(columns, NoRange)
    ELSE SlicePredicate(NoNames,
             SliceRange(column_start, column_finish, column_reversed, column_count))

(***************************************************************************)
(* The handle.  A declared type string is the sequence of its dot-         *)
(* separated components; NoneStr is an absent declaration (None).          *)
(***************************************************************************)
NoneStr == <<>>

\* A resolution that takes the last component whatever it is.
_extract_type_name_trailing(string) ==
    IF string = NoneStr THEN "BytesType" ELSE string[Len(string)]

_extract_type_name(string) ==
    IF string = NoneStr THEN "BytesType"
    ELSE IF Len(string) = 1 THEN "BytesType"
    ELSE IF string[Len(string)] \notin _TYPES THEN "BytesType"
    ELSE string[Len(string)]

\* The fields __init__ sets once the column family is found in the keyspace
\* description.  "None" is a type attribute left at None.
ColumnFamily(col_fam, buffer_size, super, autopack_names, autopack_values) ==
    [column_family |-> col_fam.name,
     buffer_size |-> buffer_size,
     super |-> super,
     autopack_names |-> autopack_names,
     autopack_values |-> autopack_values,
     col_name_data_type |->
        IF ~autopack_names THEN "None"
        ELSE IF ~super THEN _extract_type_name(col_fam.comparator_type)
        ELSE _extract_type_name(col_fam.subcomparator_type),
     supercol_name_data_type |->
        IF autopack_names /\ super
        THEN _extract_type_name(col_fam.comparator_type) ELSE "None",
     cf_data_type |->
        IF autopack_values
        THEN _extract_type_name(col_fam.default_validation_class) ELSE "None",
     col_type_dict |->
        IF autopack_values
        THEN [name \in DOMAIN col_fam.column_metadata |->
                 _extract_type_name(col_fam.column_metadata[name])]
        ELSE [name \in {} |-> "None"]]

(***************************************************************************)
(* pycassa.util.convert_time_to_uuid: a UUID stays as it is, a number      *)
(* becomes the version 1 UUID of that time whose clock sequence and node   *)
(* are all zeros (lowest), all ones (highest) or the drawn bits rnd.       *)
(***************************************************************************)
TimeUuidBytes(t, cs_hi, cs_low, node) ==
    IntBytes(t, 4) \o <<0, 0>> \o <<16, 0>>
        \o <<128 + cs_hi, cs_low>> \o [p \in 1..6 |-> node]

convert_time_to_uuid(value, lowest_val, randomize, rnd) ==
    CASE value.kind = "uuid" -> value
      [] value.kind = "int" ->
            IF randomize THEN PyUuid(TimeUuidBytes(value.n, rnd % 64, rnd, rnd))
            ELSE IF lowest_val THEN PyUuid(TimeUuidBytes(value.n, 0, 0, 0))
            ELSE PyUuid(TimeUuidBytes(value.n, 63, 255, 255))
      [] OTHER -> Raise("ValueError")

_pack_name(h, value, is_supercol_name, slice_end, rnd) ==
    IF ~h.autopack_names THEN value
    ELSE IF value = None THEN None
    ELSE LET d_type == IF is_supercol_name THEN h.supercol_name_data_type
                       ELSE h.col_name_data_type
             v == IF d_type = "TimeUUIDType"
                  THEN (IF slice_end # _NON_SLICE
                        THEN convert_time_to_uuid(value, slice_end = _SLICE_START, FALSE, rnd)
                        ELSE convert_time_to_uuid(value, TRUE, TRUE, rnd))
                  ELSE value
         IN  IF Raised(v) THEN v ELSE _pack(v, d_type)

_unpack_name(h, b, is_supercol_name) ==
    IF ~h.autopack_names THEN b
    ELSE IF b = None THEN None
    ELSE _unpack(b, IF is_supercol_name THEN h.supercol_name_data_type
                    ELSE h.col_name_data_type)

\* A packing of the slice columns that gives column_start the finish role and
\* column_finish the start role.
_pack_slice_cols_swapped(h, super_column, column_start, column_finish, rnd) ==
    << IF super_column # EmptyStr
       THEN _pack_name(h, super_column, TRUE, _NON_SLICE, rnd) ELSE super_column,
       IF column_start # EmptyStr
       THEN _pack_name(h, column_start, h.super, _SLICE_FINISH, rnd) ELSE column_start,
       IF column_finish # EmptyStr
       THEN _pack_name(h, column_finish, h.super, _SLICE_START, rnd) ELSE column_finish >>

\* The triple (super_column, column_start, column_finish) as packed; the
\* empty string is left alone.
_pack_slice_cols(h, super_column, column_start, column_finish, rnd) ==
    << IF super_column # EmptyStr
       THEN _pack_name(h, super_column, TRUE, _NON_SLICE, rnd) ELSE super_column,
       IF column_start # EmptyStr
       THEN _pack_name(h, column_start, h.super, _SLICE_START, rnd) ELSE column_start,
       IF column_finish # EmptyStr
       THEN _pack_name(h, column_finish, h.super, _SLICE_FINISH, rnd) ELSE column_finish >>

\* packed_cols: None, or the list of the packed names.
PackColumns(h, columns, rnd) ==
    IF columns.isNone THEN NoNames
    ELSE Names([p \in 1..Len(columns.names) |->
                  _pack_name(h, columns.names[p], h.super, _NON_SLICE, rnd)])

\* The exception of the first element of a sequence of results that raised,
\* "" when none did.
RECURSIVE FirstRaised(_)
FirstRaised(s) ==
    IF s = <<>> THEN ""
    ELSE IF Raised(Head(s)) THEN Head(s).exc
    ELSE FirstRaised(Tail(s))

(***************************************************************************)
(* The opening of every read operation: pack the slice columns, pack the   *)
(* explicit columns, build the ColumnParent and the SlicePredicate.  exc   *)
(* is the exception that ended it ("" when the request was built);         *)
(* index_clause is the clause get_indexed_slices sends with them.          *)
(***************************************************************************)
SliceRequest(h, a, column_reversed, column_count) ==
    LET packed == _pack_slice_cols(h, a.super_column, a.column_start,
                                   a.column_finish, a.rnd)
        packed_cols == PackColumns(h, a.columns, a.rnd)
        exc == FirstRaised(packed \o packed_cols.names)
    IN  IF exc # ""
        THEN [exc |-> exc, cp |-> NoCp, sp |-> NoSp, index_clause |-> <<>>]
        ELSE [exc |-> "",
              cp |-> ColumnParent(h.column_family, packed[1]),
              sp |-> create_SlicePredicate(packed_cols, packed[2], packed[3],
                                           column_reversed, column_count),
              index_clause |-> <<>>]

(***************************************************************************)
(* Values, and the conversion of the wire structures to dict_class.  A     *)
(* mapping is the sequence of its entries in insertion order.              *)
(***************************************************************************)
_get_data_type_for_col(h, col_name) ==
    IF col_name \notin DOMAIN h.col_type_dict THEN h.cf_data_type
    ELSE h.col_type_dict[col_name]

_pack_value(h, value, col_name) ==
    IF ~h.autopack_values THEN value
    ELSE _pack(value, _get_data_type_for_col(h, col_name))

_unpack_value(h, value, col_name) ==
    IF ~h.autopack_values THEN value
    ELSE _unpack(value, _get_data_type_for_col(h, col_name))

\* The wire structures Column and ColumnOrSuperColumn; a supercolumn carries
\* its subcolumns in columns.
Column(name, value, ts) == [name |-> name, value |-> value, timestamp |-> ts]
OfColumn(col) ==
    [is_super |-> FALSE, name |-> col.name, value |-> col.value,
     timestamp |-> col.timestamp, columns |-> <<>>]
OfSuperColumn(name, columns) ==
    [is_super |-> TRUE, name |-> name, value |-> None,
     timestamp |-> 0, columns |-> columns]

\* ret[k] = e on an insertion-ordered mapping.
DictSet(d, k, e) ==
    IF \E p \in DOMAIN d : d[p].k = k
    THEN [p \in DOMAIN d |-> IF d[p].k = k THEN e ELSE d[p]]
    ELSE Append(d, e)

\* del ret[k], for a k that is in the mapping.
DictDel(d, k) == SelectSeq(d, LAMBDA e : e.k # k)

DictKeys(d) == [p \in DOMAIN d |-> d[p].k]
DictHas(d, k) == \E p \in DOMAIN d : d[p].k = k

\* value, or (value, column.timestamp).
_convert_Column_to_base(h, column, include_timestamp) ==
    [v |-> _unpack_value(h, column.value, column.name),
     with_ts |-> include_timestamp,
     ts |-> IF include_timestamp THEN column.timestamp ELSE 0]

RECURSIVE SuperColumnToBase(_, _, _, _)
SuperColumnToBase(h, columns, include_timestamp, acc) ==
    IF columns = <<>> THEN acc
    ELSE LET column == Head(columns)
             base == _convert_Column_to_base(h, column, include_timestamp)
             k == _unpack_name(h, column.name, FALSE)
         IN  SuperColumnToBase(h, Tail(columns), include_timestamp,
                 DictSet(acc, k, [k |-> k, base |-> base]))

_convert_SuperColumn_to_base(h, super_column, include_timestamp) ==
    SuperColumnToBase(h, super_column.columns, include_timestamp, <<>>)

NoBase == [v |-> None, with_ts |-> FALSE, ts |-> 0]

RECURSIVE ColumnsToDict(_, _, _, _)
ColumnsToDict(h, list_col_or_super, include_timestamp, acc) ==
    IF list_col_or_super = <<>> THEN acc
    ELSE LET col_or_super == Head(list_col_or_super)
             k == _unpack_name(h, col_or_super.name, col_or_super.is_super)
             e == IF col_or_super.is_super
                  THEN [k |-> k, base |-> NoBase,
                        sub |-> _convert_SuperColumn_to_base(h, col_or_super,
                                                             include_timestamp)]
                  ELSE [k |-> k,
                        base |-> _convert_Column_to_base(h, col_or_super,
                                                         include_timestamp),
                        sub |-> <<>>]
         IN  ColumnsToDict(h, Tail(list_col_or_super), include_timestamp,
                           DictSet(acc, k, e))

_convert_ColumnOrSuperColumns_to_dict_class(h, list_col_or_super, include_timestamp) ==
    ColumnsToDict(h, list_col_or_super, include_timestamp, <<>>)

\* The exception an unpack raised while the mapping was built, "" when none.
RECURSIVE DictRaised(_)
DictRaised(d) ==
    IF d = <<>> THEN ""
    ELSE LET e == Head(d)
             inner == FirstRaised(<<e.base.v, e.k>>)
             below == IF inner # "" THEN inner
                      ELSE FirstRaised([p \in DOMAIN e.sub |-> e.sub[p].base.v]
                                       \o [p \in DOMAIN e.sub |-> e.sub[p].k])
         IN  IF below # "" THEN below ELSE DictRaised(Tail(d))

(***************************************************************************)
(* State.                                                                  *)
(***************************************************************************)
VARIABLES
    handle,        \* the ColumnFamily object, as __init__ left it
    store,         \* the keys of the rows the server holds
    op,            \* the operation called last
    pc,            \* where that call stands
    args,          \* its arguments
    request,       \* the ColumnParent and SlicePredicate it built
    response,      \* what the server answered (get, multiget)
    result,        \* what the call returned or raised
    index_clause,  \* the caller's IndexClause object (get_indexed_slices)
    buffer_size,   \* get_range: the local buffer_size
    count,         \* get_range: rows yielded
    i,             \* get_range: pages completed
    last_key,      \* get_range: start key of the next page
    key_slices,    \* get_range: the current page
    j,             \* get_range: position of the enumerate() loop in the page
    emitted,       \* get_range: the rows yielded so far
    requests,      \* get_range: the key ranges requested so far
    ret,           \* multiget: the mapping being assembled
    non_empty_keys,\* multiget: the keys that came back with columns
    todo,          \* multiget: the keymap items not yet iterated
    pos,           \* multiget: position of the loop over keys
    timestamp,     \* batch_insert: the local timestamp
    clock,         \* readings the handle's timestamp function has given
    batch,         \* batch_insert: the mutations the mutator has staged
    sent,          \* the batches the mutator has flushed
    rows_left,     \* batch_insert: the items of rows not yet iterated
    lookups,       \* __init__: the catalog lookups made since the behaviour began
    resolved       \* __init__: the calls of _extract_type_name made since then

callVars == <<op, pc, args, request, response, result, index_clause>>
scanVars == <<buffer_size, count, i, last_key, key_slices, j, emitted, requests>>
mgVars == <<ret, non_empty_keys, todo, pos>>
insVars == <<timestamp, clock, batch, sent, rows_left>>
ctorVars == <<lookups, resolved>>
vars == <<handle, store, ctorVars, callVars, scanVars, mgVars, insVars>>

\* row_count=None.
NoRowCount == -1

\* timestamp=None.
NoTimestamp == -1

DefaultArgs ==
    [key |-> EmptyKey, keys |-> <<>>, columns |-> NoNames,
     column_start |-> EmptyStr, column_finish |-> EmptyStr,
     column_reversed |-> FALSE, column_count |-> 100,
     include_timestamp |-> FALSE, super_column |-> None,
     start |-> EmptyKey, finish |-> EmptyKey, row_count |-> NoRowCount,
     index_clause |-> <<>>, rnd |-> 0,
     rows |-> <<>>, insert_columns |-> <<>>, timestamp |-> NoTimestamp,
     ttl |-> 0]

NoRequest == [exc |-> "", cp |-> NoCp, sp |-> NoSp, index_clause |-> <<>>]
NoResult == [kind |-> "none", exc |-> "", mapping |-> <<>>, n |-> 0]
Raises(e) == [kind |-> "raise", exc |-> e, mapping |-> <<>>, n |-> 0]
Mapping(m) == [kind |-> "mapping", exc |-> "", mapping |-> m, n |-> 0]
Returns(n) == [kind |-> "value", exc |-> "", mapping |-> <<>>, n |-> n]

\* The handle is constructed and no call has been made on it yet; a behaviour
\* follows one call from here to its end.
Ended == pc = "idle"

ScanReset ==
    /\ buffer_size' = 0 /\ count' = 0 /\ i' = 0 /\ last_key' = EmptyKey
    /\ key_slices' = <<>> /\ j' = 0 /\ emitted' = <<>> /\ requests' = <<>>
MgReset ==
    /\ ret' = <<>> /\ non_empty_keys' = <<>> /\ todo' = {} /\ pos' = 0
InsReset ==
    /\ timestamp' = 0 /\ batch' = <<>> /\ sent' = <<>> /\ rows_left' = <<>>
    /\ UNCHANGED clock

(***************************************************************************)
(* The server's side of get_range_slices: the rows of the store whose key  *)
(* lies in [start_key, end_key] (an empty end_key is no upper bound), in   *)
(* key order, at most count of them.                                       *)
(***************************************************************************)
RECURSIVE SortedSeq(_)
SortedSeq(S) ==
    IF S = {} THEN <<>>
    ELSE LET m == CHOOSE x \in S : \A y \in S : x <= y
         IN  <<m>> \o SortedSeq(S \ {m})

RangeRows(rows, start_key, end_key) ==
    {k \in rows : k >= start_key /\ (end_key = EmptyKey \/ k <= end_key)}

get_range_slices(rows, key_range) ==
    LET all == SortedSeq(RangeRows(rows, key_range.start_key, key_range.end_key))
    IN  IF Len(all) <= key_range.count THEN all
        ELSE SubSeq(all, 1, key_range.count)

KeyRange(start_key, end_key, cnt) ==
    [start_key |-> start_key, end_key |-> end_key, count |-> cnt]

(***************************************************************************)
(* get_range, a generator: the call, then one action per step of its       *)
(* loops.                                                                  *)
(***************************************************************************)
\* buffer_size = min(row_count, self.buffer_size) when row_count is given.
PageSize(row_count, self_buffer_size) ==
    IF row_count # NoRowCount
    THEN (IF row_count < self_buffer_size THEN row_count ELSE self_buffer_size)
    ELSE self_buffer_size

\* A scan that never drops the first row of a page.
IsDuplicate_never(jj, ii) == FALSE

\* "Ignore the first element after the first iteration".
IsDuplicate(jj, ii) == jj = 0 /\ ii # 0

\* A limit that is tested one row late.
LimitReached_late(row_count, cnt) == row_count # NoRowCount /\ cnt > row_count

\* The row-count limit is set and reached.
LimitReached(row_count, cnt) == row_count # NoRowCount /\ cnt >= row_count

\* A page that counts as the last one as soon as it is no more than a buffer.
LastPage_eager(page, self_buffer_size) == Len(page) <= self_buffer_size

\* The page is the last one: it is not a full buffer.
LastPage(page, self_buffer_size) == Len(page) # self_buffer_size

\* Pages one call of the model may request.
MaxPages == MaxKey + 2

get_range(a) ==
    /\ Ended
    /\ op' = "get_range" /\ args' = a /\ response' = <<>>
    /\ LET r == SliceRequest(handle, a, a.column_reversed, a.column_count)
       IN  /\ request' = r
           /\ IF r.exc # ""
              THEN /\ pc' = "done" /\ result' = Raises(r.exc)
                   /\ ScanReset
              ELSE /\ pc' = "fetching" /\ result' = NoResult
                   /\ count' = 0 /\ i' = 0 /\ last_key' = a.start
                   /\ buffer_size' = PageSize(a.row_count, handle.buffer_size)
                   /\ key_slices' = <<>> /\ j' = 0 /\ emitted' = <<>>
                   /\ requests' = <<>>
    /\ MgReset /\ InsReset
    /\ UNCHANGED <<handle, store, ctorVars, index_clause>>

\* One pass of "while True" up to the page: key_slices = get_range_slices(...).
GetRangeFetch ==
    /\ op = "get_range" /\ pc = "fetching" /\ i < MaxPages
    /\ LET key_range == KeyRange(last_key, args.finish, buffer_size)
           page == get_range_slices(store, key_range)
       IN  /\ key_slices' = page
           /\ requests' = Append(requests, [key_range |-> key_range, page |-> page])
    /\ j' = 0 /\ pc' = "yielding"
    /\ UNCHANGED <<handle, store, ctorVars, op, args, request, response, result, index_clause,
                   buffer_size, count, i, last_key, emitted, mgVars, insVars>>

\* "if key_slices is None: return", which a server that never stored a row
\* may answer.
GetRangeNone ==
    /\ op = "get_range" /\ pc = "fetching" /\ i < MaxPages
    /\ store = {}
    /\ requests' = Append(requests,
           [key_range |-> KeyRange(last_key, args.finish, buffer_size), page |-> <<>>])
    /\ pc' = "exhausted"
    /\ UNCHANGED <<handle, store, ctorVars, op, args, request, response, result, index_clause,
                   buffer_size, count, i, last_key, key_slices, j, emitted,
                   mgVars, insVars>>

\* "continue": the first row of a page after the first is not yielded.
GetRangeSkip ==
    /\ op = "get_range" /\ pc = "yielding" /\ j < Len(key_slices)
    /\ IsDuplicate(j, i)
    /\ j' = j + 1
    /\ UNCHANGED <<handle, store, ctorVars, callVars, buffer_size, count, i, last_key,
                   key_slices, emitted, requests, mgVars, insVars>>

\* "yield (key_slice.key, ...)", then the count and the limit.
GetRangeYield ==
    /\ op = "get_range" /\ pc = "yielding" /\ j < Len(key_slices)
    /\ ~IsDuplicate(j, i)
    /\ emitted' = Append(emitted, key_slices[j + 1])
    /\ count' = count + 1
    /\ IF LimitReached(args.row_count, count + 1)
       THEN pc' = "exhausted" /\ j' = j
       ELSE pc' = pc /\ j' = j + 1
    /\ UNCHANGED <<handle, store, ctorVars, op, args, request, response, result, index_clause,
                   buffer_size, i, last_key, key_slices, requests, mgVars, insVars>>

\* After the page: return when it is not a full buffer, else move the cursor.
GetRangePageEnd ==
    /\ op = "get_range" /\ pc = "yielding" /\ j = Len(key_slices)
    /\ IF LastPage(key_slices, handle.buffer_size)
       THEN pc' = "exhausted" /\ UNCHANGED <<last_key, i>>
       ELSE /\ pc' = "fetching"
            /\ last_key' = key_slices[Len(key_slices)]
            /\ i' = i + 1
    /\ UNCHANGED <<handle, store, ctorVars, op, args, request, response, result, index_clause,
                   buffer_size, count, key_slices, j, emitted, requests,
                   mgVars, insVars>>

(***************************************************************************)
(* The scanning specification: a handle with any buffer size over any      *)
(* store, every key range and row limit.                                   *)
(***************************************************************************)
Marshal == <<"org", "apache", "cassandra", "db", "marshal">>
Declared(type_name) == Marshal \o <<type_name>>

Schema(comparator_type, subcomparator_type, default_validation_class) ==
    [name |-> "Standard1",
     comparator_type |-> comparator_type,
     subcomparator_type |-> subcomparator_type,
     default_validation_class |-> default_validation_class,
     column_metadata |-> [name \in {} |-> NoneStr]]

\* No operation has been called.
NoCall ==
    /\ op = "" /\ args = DefaultArgs /\ request = NoRequest
    /\ response = <<>> /\ result = NoResult /\ index_clause = <<>>
    /\ buffer_size = 0 /\ count = 0 /\ i = 0 /\ last_key = EmptyKey
    /\ key_slices = <<>> /\ j = 0 /\ emitted = <<>> /\ requests = <<>>
    /\ ret = <<>> /\ non_empty_keys = <<>> /\ todo = {} /\ pos = 0
    /\ timestamp = 0 /\ clock = <<>> /\ batch = <<>> /\ sent = <<>> /\ rows_left = <<>>
    /\ lookups = <<>> /\ resolved = <<>>

IdleCall == pc = "idle" /\ NoCall

Name1 == PyInt(1)
Name2 == PyInt(2)
NameBad == PyStr(<<120>>)

ScanArgs ==
    {[DefaultArgs EXCEPT !.start = s, !.finish = f, !.row_count = rc] :
        s \in {EmptyKey} \cup Keys, f \in {EmptyKey} \cup Keys,
        rc \in {NoRowCount} \cup (0..MaxRowCount)}

InitScan ==
    /\ handle \in {ColumnFamily(Schema(Declared("LongType"), NoneStr, NoneStr),
                                b, FALSE, TRUE, TRUE) : b \in 1..MaxBuf}
    /\ store \in SUBSET Keys
    /\ IdleCall

NextScan ==
    \/ \E a \in ScanArgs :
          (a.finish = EmptyKey \/ a.start <= a.finish) /\ get_range(a)
    \/ GetRangeFetch
    \/ GetRangeNone
    \/ GetRangeSkip
    \/ GetRangeYield
    \/ GetRangePageEnd

SpecScan == InitScan /\ [][NextScan]_vars

(***************************************************************************)
(* Claims about get_range.                                                 *)
(***************************************************************************)
InRange == SortedSeq(RangeRows(store, args.start, args.finish))
Unlimited == op = "get_range" /\ args.row_count = NoRowCount

\* C1: with a buffer_size of at least 2 and no row_count, a scan of an
\* unchanging store yields the stored rows of [start, finish] in ascending key
\* order, each once: what it has yielded is at every moment the beginning of
\* that list, and the whole of it when the scan is exhausted.
C1_ScanYieldsRange ==
    (Unlimited /\ handle.buffer_size >= 2) =>
        /\ Len(emitted) <= Len(InRange)
        /\ emitted = SubSeq(InRange, 1, Len(emitted))
        /\ (pc = "exhausted" => emitted = InRange)

C1_Witness ==
    /\ Unlimited /\ handle.buffer_size >= 2 /\ pc = "exhausted"
    /\ args.start # EmptyKey /\ args.finish # EmptyKey
    /\ Len(requests) >= 3 /\ Len(emitted) >= 3
    /\ Cardinality(store) > Len(emitted)

ThreeRows ==
    /\ Unlimited /\ handle.buffer_size = 2 /\ request.exc = ""
    /\ Len(InRange) = 3

\* C2 as stated: page size 2 over three rows A < B < C ends after exactly two
\* page requests, [A, B] and then [B, C] from B.
C2_TwoRequests ==
    (ThreeRows /\ pc = "exhausted") =>
        /\ Len(requests) = 2
        /\ requests[1].page = SubSeq(InRange, 1, 2)
        /\ requests[2].key_range.start_key = InRange[2]
        /\ requests[2].page = SubSeq(InRange, 2, 3)

\* C2 as amended: page size 2 over three rows A < B < C yields A, B, C with
\* exactly three page requests: [A, B], then [B, C] from B, a full page after
\* which the scan goes on, then [C] from C, after which it stops; there is no
\* fourth request.
C2_ThreeRequests ==
    ThreeRows =>
        /\ Len(requests) <= 3
        /\ (pc = "exhausted" =>
              /\ Len(requests) = 3
              /\ requests[1].page = SubSeq(InRange, 1, 2)
              /\ requests[2].key_range.start_key = InRange[2]
              /\ requests[2].page = SubSeq(InRange, 2, 3)
              /\ requests[3].key_range.start_key = InRange[3]
              /\ requests[3].page = SubSeq(InRange, 3, 3)
              /\ emitted = InRange)

C2_Witness ==
    /\ ThreeRows /\ pc = "exhausted" /\ Len(requests) = 3
    /\ emitted = InRange

Limited == op = "get_range" /\ args.row_count # NoRowCount

\* C3: under a row_count limit L the scan never yields more than L rows, and
\* from the moment the L-th row is yielded it yields no further row and
\* requests no further page.
C3_LimitEndsScan ==
    /\ [](Limited => Len(emitted) <= args.row_count)
    /\ [][(Limited /\ Len(emitted) > 0 /\ Len(emitted) >= args.row_count)
            => (emitted' = emitted /\ requests' = requests)]_vars

C3_Witness ==
    /\ Limited /\ Len(emitted) = args.row_count /\ args.row_count >= 2
    /\ pc = "exhausted"
    /\ j + 1 < Len(key_slices)
    /\ Len(requests) >= 2
    /\ Len(InRange) > Len(emitted)

(***************************************************************************)
(* multiget.  The call builds the request, receives the keymap and fills   *)
(* ret with a None for every key; the loop over keymap.iteritems() visits  *)
(* the keymap in no particular order, one item per step; the last loop     *)
(* deletes the keys that came back empty.                                  *)
(***************************************************************************)
RowEntry(key, is_none, row) == [k |-> key, is_none |-> is_none, row |-> row]

RECURSIVE KeepOrder(_, _)
KeepOrder(keys, acc) ==
    IF keys = <<>> THEN acc
    ELSE KeepOrder(Tail(keys),
                   DictSet(acc, Head(keys), RowEntry(Head(keys), TRUE, <<>>)))

\* A row of the keymap that is not stored as an empty placeholder.
HasColumns_always(columns) == TRUE

\* "if len(columns) > 0".
HasColumns(columns) == Len(columns) > 0

multiget(a, keymap) ==
    /\ Ended
    /\ op' = "multiget" /\ args' = a
    /\ LET r == SliceRequest(handle, a, a.column_reversed, a.column_count)
       IN  /\ request' = r
           /\ IF r.exc # ""
              THEN /\ pc' = "done" /\ result' = Raises(r.exc)
                   /\ response' = <<>> /\ MgReset
              ELSE /\ pc' = "merging" /\ result' = NoResult
                   /\ response' = keymap
                   /\ ret' = KeepOrder(a.keys, <<>>)
                   /\ non_empty_keys' = <<>>
                   /\ todo' = DOMAIN keymap
                   /\ pos' = 0
    /\ ScanReset /\ InsReset
    /\ UNCHANGED <<handle, store, ctorVars, index_clause>>

\* One item of "for key, columns in keymap.iteritems()".
MultigetItem ==
    /\ op = "multiget" /\ pc = "merging"
    /\ \E key \in todo :
          LET columns == response[key]
              row == _convert_ColumnOrSuperColumns_to_dict_class(
                         handle, columns, args.include_timestamp)
          IN  /\ todo' = todo \ {key}
              /\ IF HasColumns(columns)
                 THEN /\ non_empty_keys' = Append(non_empty_keys, key)
                      /\ IF DictRaised(row) # ""
                         THEN /\ pc' = "done" /\ result' = Raises(DictRaised(row))
                              /\ ret' = ret
                         ELSE /\ pc' = pc /\ result' = result
                              /\ ret' = DictSet(ret, key, RowEntry(key, FALSE, row))
                 ELSE UNCHANGED <<non_empty_keys, ret, pc, result>>
    /\ UNCHANGED <<handle, store, ctorVars, op, args, request, response, index_clause, pos,
                   scanVars, insVars>>

\* One key of "for key in keys: if key not in non_empty_keys: del ret[key]";
\* del raises KeyError for a key that is no longer in ret.
MultigetPrune ==
    /\ op = "multiget" /\ pc = "merging" /\ todo = {} /\ pos < Len(args.keys)
    /\ LET key == args.keys[pos + 1]
       IN  IF \E p \in DOMAIN non_empty_keys : non_empty_keys[p] = key
           THEN pos' = pos + 1 /\ UNCHANGED <<ret, pc, result>>
           ELSE IF DictHas(ret, key)
           THEN pos' = pos + 1 /\ ret' = DictDel(ret, key) /\ UNCHANGED <<pc, result>>
           ELSE pos' = pos /\ ret' = ret /\ pc' = "done" /\ result' = Raises("KeyError")
    /\ UNCHANGED <<handle, store, ctorVars, op, args, request, response, index_clause, non_empty_keys,
                   todo, scanVars, insVars>>

\* "return ret".
MultigetReturn ==
    /\ op = "multiget" /\ pc = "merging" /\ todo = {} /\ pos = Len(args.keys)
    /\ pc' = "done" /\ result' = Mapping(ret)
    /\ UNCHANGED <<handle, store, ctorVars, op, args, request, response, index_clause, mgVars,
                   scanVars, insVars>>

(***************************************************************************)
(* The multiget specification: every list of keys (a key may occur more    *)
(* than once) and every keymap the server may answer for it.               *)
(***************************************************************************)
RECURSIVE SeqsUpTo(_, _)
SeqsUpTo(S, n) ==
    IF n = 0 THEN {<<>>}
    ELSE LET shorter == SeqsUpTo(S, n - 1)
         IN  shorter \cup {Append(q, x) : q \in shorter, x \in S}

Range(q) == {q[p] : p \in DOMAIN q}

\* Columns as the server holds them under the handle's types.
\* The n-th name and the n-th value are the bytes the type's comparator
\* or validator accepts.
WireName(d_type, n) ==
    CASE d_type \in {"LongType"} -> PyStr(IntBytes(n, 8))
      [] d_type \in {"IntegerType"} -> PyStr(IntBytes(n, 4))
      [] d_type \in {"TimeUUIDType", "LexicalUUIDType"} ->
            PyStr(TimeUuidBytes(n, 5, 5, 5))
      [] OTHER -> PyStr(<<96 + n>>)

WireColumn(h, n) ==
    Column(WireName(h.col_name_data_type, n), WireName(h.cf_data_type, n + 4), 6 + n)
WireSuperColumn(h, n) ==
    OfSuperColumn(WireName(h.supercol_name_data_type, n), <<WireColumn(h, 1)>>)

Column1 == OfColumn(Column(WireName("LongType", 1), WireName("UTF8Type", 1), 7))
Column2 == OfColumn(Column(WireName("LongType", 2), WireName("UTF8Type", 2), 8))

MgKeySet == {1, 2, 3}
MgKeyLists == SeqsUpTo(MgKeySet, MaxKeysLen)
MgRows == {<<>>, <<Column1>>, <<Column1, Column2>>}

\* The keymaps for a list of keys: a list of columns, possibly empty, for
\* requested keys.
Keymaps(keys) ==
    UNION {[D -> MgRows] : D \in SUBSET Range(keys)}

MgArgs ==
    {[DefaultArgs EXCEPT !.keys = ks, !.include_timestamp = ts] :
        ks \in MgKeyLists, ts \in BOOLEAN}

InitMultiget ==
    /\ handle = ColumnFamily(Schema(Declared("LongType"), NoneStr,
                                    Declared("UTF8Type")), 2, FALSE, TRUE, TRUE)
    /\ store = {}
    /\ IdleCall

NextMultiget ==
    \/ \E a \in MgArgs : \E keymap \in Keymaps(a.keys) : multiget(a, keymap)
    \/ MultigetItem
    \/ MultigetPrune
    \/ MultigetReturn

SpecMultiget == InitMultiget /\ [][NextMultiget]_vars

RECURSIVE FirstOccurrences(_, _)
FirstOccurrences(q, seen) ==
    IF q = <<>> THEN <<>>
    ELSE IF Head(q) \in seen THEN FirstOccurrences(Tail(q), seen)
    ELSE <<Head(q)>> \o FirstOccurrences(Tail(q), seen \cup {Head(q)})

\* The keys of the call for which the keymap holds at least one column.
WithData(key) == key \in DOMAIN response /\ Len(response[key]) > 0

MultigetReturned == op = "multiget" /\ pc = "done" /\ result.kind = "mapping"

\* C4: the mapping multiget returns holds exactly the input keys that came
\* back with at least one column, in the order they were supplied, each with
\* its converted row, and no placeholder for any other key.
C4_MultigetOmitsEmpty ==
    MultigetReturned =>
        /\ DictKeys(result.mapping) =
              FirstOccurrences(SelectSeq(args.keys, WithData), {})
        /\ \A p \in DOMAIN result.mapping :
              /\ ~result.mapping[p].is_none
              /\ result.mapping[p].row =
                    _convert_ColumnOrSuperColumns_to_dict_class(
                        handle, response[result.mapping[p].k],
                        args.include_timestamp)
              /\ result.mapping[p].row # <<>>

C4_Witness ==
    /\ MultigetReturned
    /\ Len(args.keys) = 3
    /\ args.keys[1] > args.keys[3]
    /\ ~WithData(args.keys[2]) /\ args.keys[2] \in DOMAIN response
    /\ DictKeys(result.mapping) = <<args.keys[1], args.keys[3]>>

\* C5: multiget never raises because a requested row has no data: once the
\* request is built and the keymap received, the call returns a mapping.
C5_MultigetNeverRaises ==
    (op = "multiget" /\ pc = "done" /\ request.exc = "") =>
        result.kind = "mapping"

(***************************************************************************)
(* get, get_count, multiget_count and get_indexed_slices: one action each, *)
(* from the call to its return.                                            *)
(***************************************************************************)
\* A get that takes an empty answer for a row.
NotFound_never(list_col_or_super) == FALSE

\* "if len(list_col_or_super) == 0: raise NotFoundException()".
NotFound(list_col_or_super) == Len(list_col_or_super) = 0

\* What get returns for the columns the server answered.
GetResult(h, list_col_or_super, include_timestamp) ==
    LET d == _convert_ColumnOrSuperColumns_to_dict_class(h, list_col_or_super,
                                                         include_timestamp)
    IN  IF NotFound(list_col_or_super) THEN Raises("NotFoundException")
        ELSE IF DictRaised(d) # "" THEN Raises(DictRaised(d))
        ELSE Mapping(d)

CallReset == ScanReset /\ MgReset /\ InsReset /\ UNCHANGED <<handle, store, ctorVars>>

get(a, list_col_or_super) ==
    /\ Ended
    /\ op' = "get" /\ args' = a /\ pc' = "done"
    /\ LET r == SliceRequest(handle, a, a.column_reversed, a.column_count)
       IN  /\ request' = r
           /\ IF r.exc # ""
              THEN response' = <<>> /\ result' = Raises(r.exc)
              ELSE /\ response' = list_col_or_super
                   /\ result' = GetResult(handle, list_col_or_super,
                                          a.include_timestamp)
    /\ UNCHANGED index_clause
    /\ CallReset

\* A count request that takes the direction and the count of a slice.
CountRequest_sliced(h, a) == SliceRequest(h, a, a.column_reversed, a.column_count)

\* The request of get_count and multiget_count: create_SlicePredicate(...,
\* False, self.MAX_COUNT).
CountRequest(h, a) == SliceRequest(h, a, FALSE, MAX_COUNT)

get_count(a, n) ==
    /\ Ended
    /\ op' = "get_count" /\ args' = a /\ pc' = "done"
    /\ LET r == CountRequest(handle, a)
       IN  /\ request' = r
           /\ IF r.exc # ""
              THEN response' = <<>> /\ result' = Raises(r.exc)
              ELSE response' = <<n>> /\ result' = Returns(n)
    /\ UNCHANGED index_clause
    /\ CallReset

multiget_count(a, counts) ==
    /\ Ended
    /\ op' = "multiget_count" /\ args' = a /\ pc' = "done"
    /\ LET r == CountRequest(handle, a)
           ks == SortedSeq(DOMAIN counts)
       IN  /\ request' = r
           /\ IF r.exc # ""
              THEN response' = <<>> /\ result' = Raises(r.exc)
              ELSE /\ response' = counts
                   /\ result' = Mapping([p \in DOMAIN ks |->
                                           [k |-> ks[p], n |-> counts[ks[p]]]])
    /\ UNCHANGED index_clause
    /\ CallReset

IndexExpression(column_name, operator, value) ==
    [column_name |-> column_name, op |-> operator, value |-> value]

\* new_exprs: every expression with its name and its value packed.
PackExpressions(h, expressions, rnd) ==
    [p \in DOMAIN expressions |->
        IndexExpression(
            _pack_name(h, expressions[p].column_name, FALSE, _NON_SLICE, rnd),
            expressions[p].op,
            _pack_value(h, expressions[p].value, expressions[p].column_name))]

RECURSIVE ExpressionsRaised(_)
ExpressionsRaised(new_exprs) ==
    IF new_exprs = <<>> THEN ""
    ELSE LET e == FirstRaised(<<Head(new_exprs).column_name, Head(new_exprs).value>>)
         IN  IF e # "" THEN e ELSE ExpressionsRaised(Tail(new_exprs))

RECURSIVE KeySlicesToDict(_, _, _, _)
KeySlicesToDict(h, keyslice_list, include_timestamp, acc) ==
    IF keyslice_list = <<>> THEN acc
    ELSE LET keyslice == Head(keyslice_list)
         IN  KeySlicesToDict(h, Tail(keyslice_list), include_timestamp,
                 DictSet(acc, keyslice.key,
                     RowEntry(keyslice.key, FALSE,
                         _convert_ColumnOrSuperColumns_to_dict_class(
                             h, keyslice.columns, include_timestamp))))

_convert_KeySlice_list_to_dict_class(h, keyslice_list, include_timestamp) ==
    KeySlicesToDict(h, keyslice_list, include_timestamp, <<>>)

RECURSIVE RowsRaised(_)
RowsRaised(d) ==
    IF d = <<>> THEN ""
    ELSE IF DictRaised(Head(d).row) # "" THEN DictRaised(Head(d).row)
    ELSE RowsRaised(Tail(d))

\* The request of get_indexed_slices for the expressions the clause object
\* holds: cp and sp, and the clause with new_exprs.
IndexedRequest(h, a, expressions) ==
    LET r == SliceRequest(h, a, a.column_reversed, a.column_count)
        new_exprs == PackExpressions(h, expressions, a.rnd)
    IN  IF r.exc # "" \/ ExpressionsRaised(new_exprs) # "" THEN r
        ELSE [r EXCEPT !.index_clause = new_exprs]

\* The body of get_indexed_slices, called with a clause object that holds
\* expressions; done is where the call stands when it has returned or raised.
IndexedSlicesCall(a, expressions, keyslice_list, done) ==
    /\ op' = "get_indexed_slices" /\ args' = a /\ pc' = done
    /\ LET r == SliceRequest(handle, a, a.column_reversed, a.column_count)
           new_exprs == PackExpressions(handle, expressions, a.rnd)
           d == _convert_KeySlice_list_to_dict_class(handle, keyslice_list,
                                                     a.include_timestamp)
       IN  /\ request' = IndexedRequest(handle, a, expressions)
           /\ IF r.exc # ""
              THEN /\ response' = <<>> /\ result' = Raises(r.exc)
                   /\ index_clause' = expressions
              ELSE IF ExpressionsRaised(new_exprs) # ""
              THEN /\ response' = <<>>
                   /\ result' = Raises(ExpressionsRaised(new_exprs))
                   /\ index_clause' = expressions
              ELSE /\ index_clause' = new_exprs
                   /\ response' = keyslice_list
                   /\ result' = IF Len(keyslice_list) = 0
                                THEN Raises("NotFoundException")
                                ELSE IF RowsRaised(d) # "" THEN Raises(RowsRaised(d))
                                ELSE Mapping(d)
    /\ CallReset

\* The first call: the caller's clause object holds a.index_clause.
get_indexed_slices(a, keyslice_list) ==
    /\ Ended
    /\ IndexedSlicesCall(a, a.index_clause, keyslice_list, "done")

\* The same call once more, with the same arguments and the same clause
\* object as it is now.
get_indexed_slices_again(keyslice_list) ==
    /\ op = "get_indexed_slices" /\ pc = "done"
    /\ IndexedSlicesCall(args, index_clause, keyslice_list, "done again")

(***************************************************************************)
(* The read specification: handles of every kind (plain or super, names    *)
(* packed or not, each comparator), every combination of the column        *)
(* arguments, each read operation.                                         *)
(***************************************************************************)
ReadTypes == {Declared("LongType"), Declared("TimeUUIDType"), Declared("BytesType")}

ReadHandles ==
    {ColumnFamily(Schema(c, sc, Declared("LongType")), 2, sup, apn, TRUE) :
        c \in ReadTypes, sc \in ReadTypes, sup \in BOOLEAN, apn \in BOOLEAN}

StartChoices == {EmptyStr, Name1, NameBad}
FinishChoices == {EmptyStr, Name2, NameBad}
CountChoices == {100, 1}

ColumnArgs ==
    {[DefaultArgs EXCEPT !.columns = c, !.column_start = cs, !.column_finish = cf,
                         !.super_column = sc, !.rnd = 1] :
        c \in {NoNames, Names(<<>>), Names(<<Name1, Name2>>)},
        cs \in StartChoices, cf \in FinishChoices, sc \in {None, Name1}}

SliceArgs ==
    {[a EXCEPT !.column_reversed = rev, !.column_count = cnt] :
        a \in ColumnArgs, rev \in BOOLEAN, cnt \in CountChoices}

\* The columns of one row as the server answers them: supercolumns for a
\* super column family asked without a super_column, columns otherwise.
RowAnswer(h, a, n) ==
    IF h.super /\ a.super_column = None
    THEN [p \in 1..n |-> WireSuperColumn(h, p)]
    ELSE [p \in 1..n |-> OfColumn(WireColumn(h, p))]

KeySlice(key, columns) == [key |-> key, columns |-> columns]

Expression1 == IndexExpression(Name1, "EQ", PyInt(5))

PlainHandle ==
    ColumnFamily(Schema(Declared("LongType"), NoneStr, Declared("LongType")),
                 2, FALSE, TRUE, TRUE)

\* Two stored rows, or for the plain handle a store that never held one.
InitRead ==
    /\ handle \in ReadHandles
    /\ store \in {{}, {1, 2}}
    /\ store = {} => handle = PlainHandle
    /\ IdleCall

NextRead ==
    \/ \E a \in SliceArgs : \E n \in 0..2 : get(a, RowAnswer(handle, a, n))
    \/ \E a \in SliceArgs : \E n \in 0..1 :
          get_indexed_slices([a EXCEPT !.index_clause = <<Expression1>>],
                             [p \in 1..n |-> KeySlice(p, RowAnswer(handle, a, 1))])
    \/ \E a \in SliceArgs :
          multiget([a EXCEPT !.keys = <<2, 1>>],
                   [key \in {1, 2} |-> RowAnswer(handle, a, key - 1)])
    \/ MultigetItem
    \/ MultigetPrune
    \/ MultigetReturn
    \/ \E a \in ColumnArgs : \E n \in {0, 2} : get_count(a, n)
    \/ \E a \in ColumnArgs :
          multiget_count([a EXCEPT !.keys = <<2, 1>>], [key \in {1, 2} |-> key])
    \/ \E a \in SliceArgs : get_range(a)
    \/ GetRangeFetch
    \/ GetRangeNone
    \/ GetRangeSkip
    \/ GetRangeYield
    \/ GetRangePageEnd

SpecRead == InitRead /\ [][NextRead]_vars

ReadOps ==
    {"get", "multiget", "get_range", "get_indexed_slices", "get_count",
     "multiget_count"}

\* The request the operation builds from its arguments.
RequestOf(operation, h, a) ==
    IF operation \in {"get_count", "multiget_count"} THEN CountRequest(h, a)
    ELSE IF operation = "get_indexed_slices" THEN IndexedRequest(h, a, a.index_clause)
    ELSE SliceRequest(h, a, a.column_reversed, a.column_count)

Fetched == op = "get" /\ pc = "done" /\ request.exc = ""

\* C6: get raises NotFoundException exactly when the slice fetch returns no
\* column; when it returns columns, get returns a mapping with one entry per
\* returned column or supercolumn, keyed by the unpacked names in the order
\* returned, and so never an empty mapping.
C6_GetNotFoundIffEmpty ==
    Fetched =>
        /\ (result = Raises("NotFoundException")) <=> (Len(response) = 0)
        /\ (Len(response) > 0 =>
              /\ result.kind = "mapping"
              /\ Len(result.mapping) = Len(response)
              /\ result.mapping # <<>>
              /\ DictKeys(result.mapping) =
                    [p \in DOMAIN response |->
                        _unpack_name(handle, response[p].name,
                                     response[p].is_super)])

C6_Witness ==
    /\ Fetched /\ Len(response) = 2 /\ result.kind = "mapping"
    /\ handle.super /\ handle.autopack_names
    /\ handle.col_name_data_type # handle.supercol_name_data_type
    /\ response[1].is_super

Built == op \in ReadOps /\ pc # "idle" /\ request.exc = ""

\* C7: the slice predicate a read operation builds has exactly one form: the
\* packed name list and no range when a columns list is given, the range and
\* no name list when none is given.
C7_OnePredicateForm ==
    Built =>
        /\ request.sp.column_names.isNone # request.sp.slice_range.isNone
        /\ (~args.columns.isNone =>
              /\ request.sp.slice_range = NoRange
              /\ request.sp.column_names = PackColumns(handle, args.columns, args.rnd))
        /\ (args.columns.isNone =>
              /\ request.sp.column_names = NoNames
              /\ ~request.sp.slice_range.isNone)

C7_Witness ==
    /\ Built /\ op = "multiget_count"
    /\ args.columns = Names(<<Name1, Name2>>)
    /\ args.column_start = Name1 /\ args.column_finish = Name2
    /\ handle.autopack_names /\ handle.col_name_data_type = "LongType"
    /\ request.sp.slice_range.isNone

Called == op \in ReadOps /\ pc # "idle"

\* C8: with a columns list given, the request issued or the error raised is
\* the same for every column_start, column_finish, column_reversed and
\* column_count.
C8_ListIgnoresRangeArgs ==
    (Called /\ ~args.columns.isNone) =>
        \A cs \in StartChoices, cf \in FinishChoices, rev \in BOOLEAN,
           cnt \in CountChoices :
            RequestOf(op, handle,
                      [args EXCEPT !.column_start = cs, !.column_finish = cf,
                                   !.column_reversed = rev, !.column_count = cnt])
                = request

\* C9: a range-form predicate of get_count or multiget_count has reversed
\* false and count 2^31 - 1, whatever the arguments.
C9_CountPredicate ==
    (Built /\ op \in {"get_count", "multiget_count"}
           /\ ~request.sp.slice_range.isNone) =>
        /\ request.sp.slice_range.reversed = FALSE
        /\ request.sp.slice_range.count = MAX_COUNT
        /\ MAX_COUNT = 2147483647

C9_Witness ==
    /\ Built /\ op = "get_count" /\ ~request.sp.slice_range.isNone
    /\ args.column_start = Name1 /\ args.column_finish = Name2
    /\ args.super_column # None
    /\ request.sp.slice_range.count = MAX_COUNT

(***************************************************************************)
(* insert and batch_insert.  The mutator (pycassa.batch.CfMutator) stages  *)
(* a write on insert and flushes what is staged on send, in RPC batches of *)
(* at most queue_size mutations.                                           *)
(***************************************************************************)
queue_size == 100

MutatorInsert(staged, key, columns, ts, ttl) ==
    Append(staged, [key |-> key, columns |-> columns, timestamp |-> ts, ttl |-> ttl])

RECURSIVE Chunks(_, _)
Chunks(staged, limit) ==
    IF Len(staged) <= limit THEN (IF staged = <<>> THEN <<>> ELSE <<staged>>)
    ELSE <<SubSeq(staged, 1, limit)>> \o Chunks(SubSeq(staged, limit + 1, Len(staged)), limit)

\* One send(): the RPC batches it issued.
MutatorSend(staged) == [batches |-> Chunks(staged, queue_size)]

\* A timestamp that is read from the clock whatever the caller gave.
InsertTimestamp_clock(ts_arg, t) == t

\* "if timestamp == None: timestamp = self.timestamp()".
InsertTimestamp(ts_arg, t) == IF ts_arg = NoTimestamp THEN t ELSE ts_arg

\* batch_insert up to the loop: the timestamp, then a new mutator; t is what
\* the handle's timestamp function returns if it is called.
BatchInsertCall(rows, ts_arg, t) ==
    /\ timestamp' = InsertTimestamp(ts_arg, t)
    /\ clock' = IF ts_arg = NoTimestamp THEN Append(clock, t) ELSE clock
    /\ batch' = <<>>
    /\ sent' = <<>>
    /\ rows_left' = rows
    /\ pc' = "staging"
    /\ request' = NoRequest /\ response' = <<>> /\ result' = NoResult
    /\ ScanReset /\ MgReset
    /\ UNCHANGED <<handle, store, ctorVars, index_clause>>

batch_insert(a, t) ==
    /\ Ended
    /\ op' = "batch_insert" /\ args' = a
    /\ BatchInsertCall(a.rows, a.timestamp, t)

\* insert is batch_insert({key: columns}, ...).
insert(a, t) ==
    /\ Ended
    /\ op' = "insert" /\ args' = a
    /\ BatchInsertCall([key \in {a.key} |-> a.insert_columns], a.timestamp, t)

\* One item of "for key, columns in rows.iteritems(): batch.insert(...)".
BatchInsertRow ==
    /\ op \in {"insert", "batch_insert"} /\ pc = "staging"
    /\ \E key \in DOMAIN rows_left :
          /\ batch' = MutatorInsert(batch, key, rows_left[key], timestamp, args.ttl)
          /\ rows_left' = [k \in DOMAIN rows_left \ {key} |-> rows_left[k]]
    /\ UNCHANGED <<handle, store, ctorVars, callVars, scanVars, mgVars, timestamp, clock, sent>>

\* "batch.send()" and "return timestamp".
BatchInsertSend ==
    /\ op \in {"insert", "batch_insert"} /\ pc = "staging"
    /\ DOMAIN rows_left = {}
    /\ sent' = Append(sent, MutatorSend(batch))
    /\ batch' = <<>>
    /\ result' = Returns(timestamp)
    /\ pc' = "done"
    /\ UNCHANGED <<handle, store, ctorVars, op, args, request, response, index_clause,
                   scanVars, mgVars, timestamp, clock, rows_left>>

(***************************************************************************)
(* The insert specification: every set of rows, with and without a         *)
(* timestamp of the caller's.                                              *)
(***************************************************************************)
RowColumns(key) == <<[name |-> Name1, value |-> PyInt(key)]>>

BatchInsertArgs ==
    {[DefaultArgs EXCEPT !.rows = [key \in D |-> RowColumns(key)],
                         !.timestamp = ts, !.ttl = ttl] :
        D \in SUBSET (1..MaxRows),
        ts \in {NoTimestamp} \cup (0..MaxClock), ttl \in {0, 60}}

InsertArgs ==
    {[DefaultArgs EXCEPT !.key = k, !.insert_columns = RowColumns(k),
                         !.timestamp = ts, !.ttl = ttl] :
        k \in 1..MaxRows,
        ts \in {NoTimestamp} \cup (0..MaxClock), ttl \in {0, 60}}

InitInsert ==
    /\ handle = PlainHandle
    /\ store = {}
    /\ IdleCall

NextInsert ==
    \/ \E a \in BatchInsertArgs : \E t \in 1..MaxClock : batch_insert(a, t)
    \/ \E a \in InsertArgs : \E t \in 1..MaxClock : insert(a, t)
    \/ BatchInsertRow
    \/ BatchInsertSend

SpecInsert == InitInsert /\ [][NextInsert]_vars

Inserting == op \in {"insert", "batch_insert"}

\* The rows of the call.
CallRows ==
    IF op = "insert" THEN [key \in {args.key} |-> args.insert_columns]
    ELSE args.rows

\* The mutations of one send, over its RPC batches.
RECURSIVE Flatten(_)
Flatten(batches) ==
    IF batches = <<>> THEN <<>> ELSE Head(batches) \o Flatten(Tail(batches))

\* C10: one insert or batch_insert call determines the timestamp once (the
\* caller's if given, else one reading of the handle's timestamp function),
\* stages every row with it, sends only after every row is staged, sends
\* once, and returns that timestamp.
C10_OneTimestampPerCall ==
    Inserting =>
        /\ Len(clock) = (IF args.timestamp = NoTimestamp THEN 1 ELSE 0)
        /\ timestamp = (IF args.timestamp = NoTimestamp THEN clock[1]
                        ELSE args.timestamp)
        /\ \A p \in DOMAIN batch : batch[p].timestamp = timestamp
        /\ (pc = "staging" =>
              /\ sent = <<>>
              /\ {batch[p].key : p \in DOMAIN batch} =
                    DOMAIN CallRows \ DOMAIN rows_left
              /\ Len(batch) = Cardinality(DOMAIN CallRows \ DOMAIN rows_left))
        /\ (pc = "done" =>
              /\ Len(sent) = 1
              /\ LET flushed == Flatten(sent[1].batches)
                 IN  /\ {flushed[p].key : p \in DOMAIN flushed} = DOMAIN CallRows
                     /\ Len(flushed) = Cardinality(DOMAIN CallRows)
                     /\ \A p \in DOMAIN flushed :
                           /\ flushed[p].timestamp = timestamp
                           /\ flushed[p].columns = CallRows[flushed[p].key]
              /\ result = Returns(timestamp))

C10_Witness ==
    /\ op = "batch_insert" /\ pc = "done"
    /\ args.timestamp = NoTimestamp
    /\ Cardinality(DOMAIN args.rows) >= 3
    /\ Len(clock) = 1 /\ clock[1] = MaxClock
    /\ result = Returns(MaxClock)
    /\ Len(Flatten(sent[1].batches)) = Cardinality(DOMAIN args.rows)

(***************************************************************************)
(* Claims about names of TimeUUIDType.  The store orders such names by the *)
(* time of the UUID and, for one time, by the bytes.                       *)
(***************************************************************************)
\* The type under which a read operation packs column_start, column_finish
\* and the names of columns: is_supercol_name=self.super.
SliceNameType(h) ==
    IF h.super THEN h.supercol_name_data_type ELSE h.col_name_data_type

RECURSIVE LexLeq(_, _)
LexLeq(x, y) ==
    IF x = <<>> THEN TRUE
    ELSE IF y = <<>> THEN FALSE
    ELSE IF Head(x) # Head(y) THEN Head(x) < Head(y)
    ELSE LexLeq(Tail(x), Tail(y))

\* The time of a version 1 UUID of the model (its time_low field).
UuidTime(b) == Horner(SubSeq(b, 1, 4), 0)

\* The order of TimeUUIDType over the 16 bytes of two names.
TimeUuidLeq(x, y) ==
    IF UuidTime(x) # UuidTime(y) THEN UuidTime(x) < UuidTime(y)
    ELSE LexLeq(x, y)

TimeValues == {Name1.n, Name2.n}

TimeNamed ==
    /\ Built /\ handle.autopack_names
    /\ SliceNameType(handle) = "TimeUUIDType"

\* C11: under a TimeUUIDType name type a read operation sends a column_start
\* given as a time as the UUID of that time with the lowest other bits, a
\* column_finish as the one with the highest other bits, and every name of
\* a columns list as a UUID with drawn bits; for one time the start and the
\* finish encodings differ and the start one orders before the finish one.
C11_BoundaryRoles ==
    TimeNamed =>
        /\ (args.columns.isNone /\ args.column_start.kind = "int") =>
              request.sp.slice_range.start =
                  _pack(convert_time_to_uuid(args.column_start, TRUE, FALSE, args.rnd),
                        "TimeUUIDType")
        /\ (args.columns.isNone /\ args.column_finish.kind = "int") =>
              request.sp.slice_range.finish =
                  _pack(convert_time_to_uuid(args.column_finish, FALSE, FALSE, args.rnd),
                        "TimeUUIDType")
        /\ (~args.columns.isNone =>
              \A p \in DOMAIN args.columns.names :
                  request.sp.column_names.names[p] =
                      _pack(convert_time_to_uuid(args.columns.names[p], TRUE, TRUE,
                                                 args.rnd), "TimeUUIDType"))
        /\ \A t \in TimeValues :
              LET packed == _pack_slice_cols(handle, args.super_column,
                                             PyInt(t), PyInt(t), args.rnd)
              IN  /\ packed[2].kind = "str" /\ packed[3].kind = "str"
                  /\ Len(packed[2].b) = 16 /\ Len(packed[3].b) = 16
                  /\ packed[2] # packed[3]
                  /\ TimeUuidLeq(packed[2].b, packed[3].b)

C11_Witness ==
    /\ TimeNamed /\ op = "get_range" /\ handle.super
    /\ args.columns.isNone
    /\ args.column_start = Name1 /\ args.column_finish = Name2
    /\ request.sp.slice_range.start = PyStr(TimeUuidBytes(1, 0, 0, 0))
    /\ request.sp.slice_range.finish = PyStr(TimeUuidBytes(2, 63, 255, 255))

(***************************************************************************)
(* The codec specification: _pack of a value under a type, then _unpack of *)
(* the bytes it gave under the same type.  args holds the value, the type  *)
(* and the bytes; result what the last of the two calls returned.          *)
(***************************************************************************)
MinInt32 == -2147483647 - 1
MaxInt32 == 2147483647

CodecValues ==
    {PyInt(n) : n \in {MinInt32, -256, -1, 0, 1, 255, 256, MaxInt32}}
    \cup {PyStr(b) : b \in {<<>>, <<49>>, <<49, 50>>, <<97>>, <<195, 169>>, <<255>>}}
    \cup {PyUnicode(cp) : cp \in {<<>>, <<49>>, <<97>>, <<233>>}}
    \cup {PyUuid(TimeUuidBytes(1, 0, 0, 0)), PyUuid(TimeUuidBytes(2, 63, 255, 255)),
          PyUuid([p \in 1..16 |-> 17 * (p - 1)])}
    \cup {None}

CodecArgs(value, data_type, b) == [value |-> value, data_type |-> data_type, b |-> b]

PackCall(value, data_type) ==
    /\ Ended
    /\ op' = "_pack" /\ pc' = "packed"
    /\ args' = CodecArgs(value, data_type, None)
    /\ result' = _pack(value, data_type)
    /\ UNCHANGED <<handle, store, ctorVars, request, response, index_clause,
                   scanVars, mgVars, insVars>>

UnpackCall ==
    /\ op = "_pack" /\ pc = "packed" /\ ~Raised(result)
    /\ op' = "_unpack" /\ pc' = "done"
    /\ args' = CodecArgs(args.value, args.data_type, result)
    /\ result' = _unpack(result, args.data_type)
    /\ UNCHANGED <<handle, store, ctorVars, request, response, index_clause,
                   scanVars, mgVars, insVars>>

InitCodec ==
    /\ handle = PlainHandle
    /\ store = {}
    /\ IdleCall

NextCodec ==
    \/ \E value \in CodecValues : \E data_type \in _TYPES : PackCall(value, data_type)
    \/ UnpackCall

SpecCodec == InitCodec /\ [][NextCodec]_vars

\* Python's == of two values: a str and a unicode are equal when the str is
\* ASCII and has the same characters; values of other different types are
\* not equal.
PyEq(v, w) ==
    IF v.kind = w.kind THEN v = w
    ELSE IF {v.kind, w.kind} = {"str", "unicode"}
    THEN v.b = w.b /\ \A p \in DOMAIN v.b : v.b[p] < 128
    ELSE FALSE

RoundTripped == op = "_unpack" /\ pc = "done"

\* C12: whatever value _pack accepts under a type, _unpack of the bytes under
\* that type gives a value equal to it; and 1 packs under LongType to the
\* bytes 00 00 00 00 00 00 00 01.
C12_RoundTrip ==
    /\ RoundTripped => (~Raised(result) /\ PyEq(result, args.value))
    /\ _pack(PyInt(1), "LongType") = PyStr(<<0, 0, 0, 0, 0, 0, 0, 1>>)

(***************************************************************************)
(* The constructor, step by step: the attributes and the catalog lookup,   *)
(* then the name types, then the value types.  catalog is the keyspace     *)
(* description the server answers.  While __init__ runs handle is the      *)
(* object under construction; the caller holds it once pc is "idle".       *)
(***************************************************************************)
NewObject(column_family, self_buffer_size, super, autopack_names, autopack_values) ==
    [column_family |-> column_family,
     buffer_size |-> self_buffer_size,
     super |-> super,
     autopack_names |-> autopack_names,
     autopack_values |-> autopack_values,
     col_name_data_type |-> "None",
     supercol_name_data_type |-> "None",
     cf_data_type |-> "None",
     col_type_dict |-> [name \in {} |-> "None"]]

NoHandle == NewObject("", 0, FALSE, FALSE, FALSE)

\* A lookup that finds every column family.
CatalogMiss_never(catalog, column_family) == FALSE

\* "except KeyError" of client.get_keyspace_description()[self.column_family].
CatalogMiss(catalog, column_family) == column_family \notin DOMAIN catalog

InitArgs(column_family, catalog) == [column_family |-> column_family, catalog |-> catalog]

\* One call of _extract_type_name, as logged.
ResolveCall(string) == [string |-> string, tag |-> _extract_type_name(string)]

__init__(column_family, catalog, super, autopack_names, autopack_values) ==
    /\ pc = "new"
    /\ op' = "__init__" /\ args' = InitArgs(column_family, catalog)
    /\ handle' = NewObject(column_family, 2, super, autopack_names, autopack_values)
    /\ lookups' = Append(lookups, column_family)
    /\ IF CatalogMiss(catalog, column_family)
       THEN pc' = "failed" /\ result' = Raises("NotFoundException")
                          /\ response' = <<>>
       ELSE pc' = "resolving names" /\ result' = NoResult
            /\ response' = IF column_family \in DOMAIN catalog
                           THEN <<catalog[column_family]>> ELSE <<>>
    /\ UNCHANGED <<store, resolved, request, index_clause, scanVars, mgVars, insVars>>

\* "if self.autopack_names: ...", for a col_fam that is not None.
InitNames ==
    /\ op = "__init__" /\ pc = "resolving names"
    /\ IF response # <<>> /\ handle.autopack_names
       THEN LET col_fam == response[1]
            IN  IF ~handle.super
                THEN /\ handle' = [handle EXCEPT !.col_name_data_type =
                                      _extract_type_name(col_fam.comparator_type)]
                     /\ resolved' = Append(resolved, ResolveCall(col_fam.comparator_type))
                ELSE /\ handle' = [handle EXCEPT
                           !.supercol_name_data_type =
                               _extract_type_name(col_fam.comparator_type),
                           !.col_name_data_type =
                               _extract_type_name(col_fam.subcomparator_type)]
                     /\ resolved' = resolved \o
                           <<ResolveCall(col_fam.comparator_type),
                             ResolveCall(col_fam.subcomparator_type)>>
       ELSE UNCHANGED <<handle, resolved>>
    /\ pc' = "resolving values"
    /\ UNCHANGED <<store, lookups, op, args, request, response, result, index_clause,
                   scanVars, mgVars, insVars>>

\* The calls for the items of column_metadata, in the order of iteration.
RECURSIVE MetadataCalls(_)
MetadataCalls(column_metadata) ==
    IF DOMAIN column_metadata = {} THEN <<>>
    ELSE LET name == CHOOSE x \in DOMAIN column_metadata : TRUE
         IN  <<ResolveCall(column_metadata[name])>> \o
             MetadataCalls([x \in DOMAIN column_metadata \ {name} |->
                               column_metadata[x]])

\* "if self.autopack_values: ...", and the return of the constructor.
InitValues ==
    /\ op = "__init__" /\ pc = "resolving values"
    /\ IF response # <<>> /\ handle.autopack_values
       THEN LET col_fam == response[1]
            IN  /\ handle' = [handle EXCEPT
                       !.cf_data_type =
                           _extract_type_name(col_fam.default_validation_class),
                       !.col_type_dict =
                           [name \in DOMAIN col_fam.column_metadata |->
                               _extract_type_name(col_fam.column_metadata[name])]]
                /\ resolved' = resolved \o
                       <<ResolveCall(col_fam.default_validation_class)>> \o
                       MetadataCalls(col_fam.column_metadata)
       ELSE UNCHANGED <<handle, resolved>>
    /\ pc' = "idle"
    /\ UNCHANGED <<store, lookups, op, args, request, response, result, index_clause,
                   scanVars, mgVars, insVars>>

(***************************************************************************)
(* The construction specification: a catalog that declares one column      *)
(* family with every kind of type string, a handle asked for it or for a   *)
(* family the catalog does not hold, and a first get on the handle.        *)
(***************************************************************************)
ComparatorStrings ==
    {Declared(t) : t \in _TYPES}
    \cup {NoneStr, <<"LongType">>, Declared("CounterColumnType"), Declared("")}
SubcomparatorStrings == {NoneStr, Declared("UTF8Type"), <<"UTF8Type">>}
ValidatorStrings == {NoneStr, Declared("IntegerType"), Declared("DateType")}
Metadata ==
    {[name \in {} |-> NoneStr],
     [name \in {PyStr(<<97>>)} |-> Declared("LongType")]}

Catalogs ==
    {[cf \in {"Standard1"} |->
        [Schema(c, sc, dv) EXCEPT !.column_metadata = md]] :
        c \in ComparatorStrings, sc \in SubcomparatorStrings,
        dv \in ValidatorStrings, md \in Metadata}

FirstGetArgs ==
    {[DefaultArgs EXCEPT !.key = 1, !.columns = c] :
        c \in {NoNames, Names(<<PyStr(<<97>>)>>)}}

InitConstruct ==
    /\ handle = NoHandle
    /\ store = {1}
    /\ pc = "new" /\ NoCall

NextConstruct ==
    \/ \E column_family \in {"Standard1", "Standard2"}, catalog \in Catalogs,
          super \in BOOLEAN, autopack_names \in BOOLEAN, autopack_values \in BOOLEAN :
          __init__(column_family, catalog, super, autopack_names, autopack_values)
    \/ InitNames
    \/ InitValues
    \/ \E a \in FirstGetArgs : get(a, RowAnswer(handle, a, 1))

SpecConstruct == InitConstruct /\ [][NextConstruct]_vars

Constructing == op = "__init__"

\* C13: every call of _extract_type_name gives one of the seven type names:
\* for a dotted path its last component when that is one of the seven, and
\* BytesType when the last component is not one of them or the declaration
\* is None; the handle the constructor returns carries these names.
C13_TypeResolution ==
    /\ \A p \in DOMAIN resolved :
          LET string == resolved[p].string
              tag == resolved[p].tag
          IN  /\ tag \in _TYPES
              /\ (string = NoneStr => tag = "BytesType")
              /\ (Len(string) >= 2 =>
                    tag = IF string[Len(string)] \in _TYPES
                          THEN string[Len(string)] ELSE "BytesType")
    /\ (Constructing /\ pc = "idle") =>
          /\ handle = ColumnFamily(args.catalog[args.column_family],
                                   handle.buffer_size, handle.super,
                                   handle.autopack_names, handle.autopack_values)
          /\ {handle.col_name_data_type, handle.supercol_name_data_type,
               handle.cf_data_type} \subseteq _TYPES \cup {"None"}
          /\ \A name \in DOMAIN handle.col_type_dict :
                handle.col_type_dict[name] \in _TYPES

C13_Witness ==
    /\ Constructing /\ pc = "idle" /\ Len(resolved) = 4
    /\ handle.supercol_name_data_type = "TimeUUIDType"
    /\ resolved[1].string = Declared("TimeUUIDType")
    /\ resolved[2].string = NoneStr /\ handle.col_name_data_type = "BytesType"
    /\ resolved[3].string = Declared("DateType") /\ handle.cf_data_type = "BytesType"
    /\ resolved[4].tag = "LongType"

\* C14: a constructor called for a column family the catalog does not hold
\* raises NotFoundException after its one catalog lookup, with no type name
\* resolved and nothing packed or requested, and nothing can be called on
\* the object afterwards.
C14_AbsentFamilyFails ==
    /\ []((Constructing /\ args.column_family \notin DOMAIN args.catalog) =>
            /\ pc = "failed"
            /\ result = Raises("NotFoundException")
            /\ lookups = <<args.column_family>>
            /\ resolved = <<>>
            /\ handle = NewObject(args.column_family, handle.buffer_size, handle.super,
                                  handle.autopack_names, handle.autopack_values)
            /\ request = NoRequest /\ response = <<>>)
    /\ [](pc = "failed" => (Constructing /\ args.column_family \notin DOMAIN args.catalog))
    /\ [][pc # "failed"]_vars

C14_Witness ==
    /\ Constructing /\ pc = "failed"
    /\ args.column_family = "Standard2"
    /\ handle.autopack_names /\ handle.autopack_values
    /\ lookups = <<"Standard2">>

(***************************************************************************)
(* A scan that is consumed to its end: the consumer keeps asking for the   *)
(* next row, so a step of the generator that can be taken is taken.        *)
(***************************************************************************)
GetRangeStep ==
    GetRangeFetch \/ GetRangeNone \/ GetRangeSkip \/ GetRangeYield \/ GetRangePageEnd

SpecScanConsumed == SpecScan /\ WF_vars(GetRangeStep)

Scanning == op = "get_range" /\ pc \in {"fetching", "yielding"}

\* The start keys of the page requests made so far increase strictly.
CursorIncreases ==
    \A k \in 1..(Len(requests) - 1) :
        requests[k].key_range.start_key < requests[k + 1].key_range.start_key

\* C15: a scan of an unchanging store that is consumed to its end reaches
\* the exhausted state, whatever the buffer_size (at least 1) and the
\* row_count, and the start key of each page request is greater than that of
\* the request before it.
C15_ScanTerminates ==
    /\ Scanning ~> (pc = "exhausted")
    /\ [](op = "get_range" => CursorIncreases)

(***************************************************************************)
(* A scan while other clients write: between two page requests of the scan *)
(* a row may be inserted into the store or removed from it.                *)
(***************************************************************************)
BetweenPages == op = "get_range" /\ pc = "fetching" /\ i > 0

OtherClientInsert(key) ==
    /\ BetweenPages /\ key \notin store
    /\ store' = store \cup {key}
    /\ UNCHANGED <<handle, ctorVars, callVars, scanVars, mgVars, insVars>>

OtherClientRemove(key) ==
    /\ BetweenPages /\ key \in store
    /\ store' = store \ {key}
    /\ UNCHANGED <<handle, ctorVars, callVars, scanVars, mgVars, insVars>>

SharedScanArgs ==
    {[DefaultArgs EXCEPT !.row_count = rc] : rc \in {NoRowCount, MaxRowCount}}

NextSharedScan ==
    \/ \E a \in SharedScanArgs : get_range(a)
    \/ GetRangeFetch
    \/ GetRangeNone
    \/ GetRangeSkip
    \/ GetRangeYield
    \/ GetRangePageEnd
    \/ \E key \in Keys : OtherClientInsert(key)
    \/ \E key \in Keys : OtherClientRemove(key)

SpecSharedScan == InitScan /\ [][NextSharedScan]_vars

\* The first row of the current page, a page after the first, was dropped.
Dropped ==
    /\ op = "get_range" /\ pc \in {"yielding", "exhausted"}
    /\ i > 0 /\ j >= 1 /\ key_slices # <<>>

\* C16: a row that get_range drops from the head of a page after the first
\* is the last row of the page before it and has been yielded, also when
\* rows are inserted or removed by others between the page requests.
C16_DroppedRowWasEmitted ==
    Dropped =>
        LET previous == requests[Len(requests) - 1].page
        IN  /\ key_slices[1] = previous[Len(previous)]
            /\ \E p \in DOMAIN emitted : emitted[p] = key_slices[1]

(***************************************************************************)
(* Slices of a row whose names are TimeUUIDs.  The row holds, for every    *)
(* time up to MaxTime, three columns that differ in the other bits of the  *)
(* UUID; the server answers a range with the columns between start and     *)
(* finish in the order of the comparator, from finish down to start's side *)
(* when reversed, at most count of them.                                   *)
(***************************************************************************)
MaxTime == 3

StoredNames ==
    {TimeUuidBytes(t, bits[1], bits[2], bits[3]) :
        t \in 1..MaxTime, bits \in {<<0, 0, 0>>, <<5, 5, 5>>, <<63, 255, 255>>}}

\* Whether the name u lies in the range, in the direction of the slice; an
\* empty start or finish is no bound.
InSlice(slice_range, u) ==
    LET lower == IF slice_range.reversed THEN slice_range.finish ELSE slice_range.start
        upper == IF slice_range.reversed THEN slice_range.start ELSE slice_range.finish
    IN  /\ (lower = EmptyStr \/ TimeUuidLeq(lower.b, u))
        /\ (upper = EmptyStr \/ TimeUuidLeq(u, upper.b))

RECURSIVE SortedNames(_, _)
SortedNames(S, reversed) ==
    IF S = {} THEN <<>>
    ELSE LET m == CHOOSE x \in S :
                     \A y \in S : IF reversed THEN TimeUuidLeq(y, x)
                                   ELSE TimeUuidLeq(x, y)
         IN  <<m>> \o SortedNames(S \ {m}, reversed)

\* The answer of the single-row slice fetch for the request get builds.
get_slice(h, a) ==
    LET r == SliceRequest(h, a, a.column_reversed, a.column_count)
        all == SortedNames({u \in StoredNames : InSlice(r.sp.slice_range, u)},
                           r.sp.slice_range.reversed)
        names == IF Len(all) <= r.sp.slice_range.count THEN all
                 ELSE SubSeq(all, 1, r.sp.slice_range.count)
    IN  IF r.exc # "" \/ r.sp.slice_range.isNone THEN <<>>
        ELSE [p \in DOMAIN names |->
                IF h.super /\ a.super_column = None
                THEN OfSuperColumn(PyStr(names[p]), <<WireColumn(h, 1)>>)
                ELSE OfColumn(Column(PyStr(names[p]), WireName(h.cf_data_type, 1), 7))]

TimeChoices == {EmptyStr} \cup {PyInt(t) : t \in 1..MaxTime}

TimeSliceArgs ==
    {[DefaultArgs EXCEPT !.key = 1, !.column_start = cs, !.column_finish = cf,
                         !.column_reversed = rev, !.column_count = cnt] :
        cs \in TimeChoices, cf \in TimeChoices, rev \in BOOLEAN, cnt \in CountChoices}

InitTimeSlice ==
    /\ handle \in {ColumnFamily(Schema(Declared("TimeUUIDType"), Declared("LongType"),
                                       NoneStr), 2, sup, TRUE, TRUE) : sup \in BOOLEAN}
    /\ store = {1}
    /\ IdleCall

NextTimeSlice == \E a \in TimeSliceArgs : get(a, get_slice(handle, a))

SpecTimeSlice == InitTimeSlice /\ [][NextTimeSlice]_vars

\* A get over a range given by two times, start and finish in the order the
\* direction of the slice asks for.
TimeSliced ==
    /\ Fetched
    /\ args.column_start.kind = "int" /\ args.column_finish.kind = "int"
    /\ IF args.column_reversed THEN args.column_start.n >= args.column_finish.n
       ELSE args.column_start.n <= args.column_finish.n

\* C17: in a range slice over TimeUUID names given by two times, every stored
\* column whose time is the start time or the finish time lies between the
\* encoded start and the encoded finish and is returned, for both directions
\* of the slice.
C17_BoundsInclusive ==
    TimeSliced =>
        \A u \in StoredNames :
            UuidTime(u) \in {args.column_start.n, args.column_finish.n} =>
                /\ InSlice(request.sp.slice_range, u)
                /\ (args.column_count = 100 =>
                      \E p \in DOMAIN response : response[p].name = PyStr(u))

(***************************************************************************)
(* The type under which names go out and the type under which they come    *)
(* back.                                                                   *)
(***************************************************************************)
\* The type under which the conversion unpacks the name of a returned
\* column or supercolumn.
UnpackNameType(h, col_or_super) ==
    IF col_or_super.is_super THEN h.supercol_name_data_type
    ELSE h.col_name_data_type

\* The columns and supercolumns the server returned for the call.
ReturnedColumns ==
    CASE op = "get" -> Range(response)
      [] op = "multiget" -> UNION {Range(response[key]) : key \in DOMAIN response}
      [] op = "get_indexed_slices" ->
            UNION {Range(response[p].columns) : p \in DOMAIN response}
      [] OTHER -> {}

\* C18: for every read operation and every handle that packs names, the
\* type under which the columns list, column_start and column_finish are
\* packed is the type under which the names of the columns returned for the
\* request are unpacked.
C18_SameTypeBothWays ==
    (Built /\ handle.autopack_names) =>
        \A col_or_super \in ReturnedColumns :
            UnpackNameType(handle, col_or_super) = SliceNameType(handle)

(***************************************************************************)
(* The indexed specification: get_indexed_slices called, and called again  *)
(* with the same index clause object.                                      *)
(***************************************************************************)
Expression2 == IndexExpression(Name2, "GTE", PyInt(6))

IndexedArgs ==
    {[DefaultArgs EXCEPT !.index_clause = clause, !.columns = c,
                         !.column_count = cnt, !.rnd = 1] :
        clause \in {<<Expression1>>, <<Expression1, Expression2>>},
        c \in {NoNames, Names(<<Name1>>)}, cnt \in CountChoices}

IndexedHandles ==
    {ColumnFamily(Schema(c, NoneStr, dv), 2, FALSE, apn, apv) :
        c \in ReadTypes, dv \in {Declared("LongType"), Declared("BytesType")},
        apn \in BOOLEAN, apv \in BOOLEAN}

InitIndexed ==
    /\ handle \in IndexedHandles
    /\ store = {1}
    /\ IdleCall

NextIndexed ==
    \/ \E a \in IndexedArgs : \E n \in 0..1 :
          get_indexed_slices(a, [p \in 1..n |-> KeySlice(p, RowAnswer(handle, a, 1))])
    \/ \E n \in 0..1 :
          get_indexed_slices_again(
              [p \in 1..n |-> KeySlice(p, RowAnswer(handle, args, 1))])

SpecIndexed == InitIndexed /\ [][NextIndexed]_vars

Indexed == op = "get_indexed_slices" /\ pc \in {"done", "done again"}

\* C19: a call of get_indexed_slices leaves the caller's index clause as it
\* was, and a second call with the same clause object issues the request
\* the first call issued: the expressions of the caller, packed once.
C19_ClauseUnchanged ==
    Indexed =>
        /\ index_clause = args.index_clause
        /\ request = IndexedRequest(handle, args, args.index_clause)

====
